---------------------------- MODULE Spec2Model ----------------------------
(***************************************************************************)
(* PicoFlasher: the device-safe image writer (src/flash.py,               *)
(* class SafeISOFlasher).  One flasher instance, three threads:           *)
(*   - the flash thread, executing flash_iso (pc),                         *)
(*   - a caller thread that may call cancel_flash at any time (cpc),       *)
(*   - the progress monitor thread started by flash_iso (monAlive),        *)
(* plus the dd subprocess of the privileged write strategy (dd).           *)
(* Every statement of flash_iso / cancel_flash that reads or writes a     *)
(* shared field (_stop_progress, _cancelled, _status, _bytes_written) is  *)
(* a step of its own, so the threads interleave as Python threads do.     *)
(*                                                                         *)
(* Six specifications:                                                     *)
(*   Spec        flash_iso sessions with cancel_flash calls interleaved;   *)
(*   IsoSpec     validate_iso called on its own, over every image file;    *)
(*   VerifySpec  _verify_flash called on its own, over images and devices; *)
(*   MainSpec    the flash button and the flash threads of src/main.py;    *)
(*   ListSpec    list_usb_devices over the block devices lsblk reports;    *)
(*   UnmountSpec _safe_unmount called twice in succession on one device.   *)
(***************************************************************************)
EXTENDS Naturals, Sequences, FiniteSets

\* ------------------------------------------------------------------ bounds
\* Sizes are counted in blocks; images and devices have at most MaxSize blocks.
MaxSize == 2
\* Number of cancel_flash calls made on the instance.
MaxCancels == 1
\* Number of mounted partitions found under the target device.
MaxParts == 1
\* Number of clicks on the flash button of main.py.
MaxClicks == 2
\* Number of block devices lsblk reports to list_usb_devices.
MaxDevices == 2

\* ---------------------------------------------------- numbers of the source
\* 1024 * 1024 * 1024 bytes
GiB == 1073741824
\* the ceiling of validate_iso, in GiB: 10 * 1024 * 1024 * 1024 bytes
MaxIsoGiB == 10
\* block_size of _verify_flash, in bytes
VerifyBlockSize == 65536
\* the bytes compared between two progress reports of _verify_flash:
\* 10 * 1024 * 1024
ReportStep == 10485760
\* the bytes validate_iso reads as the header
HeaderLen == 32768

\* ------------------------------------------------------------- FlashStatus
IDLE == "Idle"
VALIDATING == "Validating"
UNMOUNTING == "Unmounting"
FLASHING == "Flashing"
VERIFYING == "Verifying"
COMPLETED == "Completed"
ERROR == "Error"
CANCELLED == "Cancelled"

FlashStatus ==
  {IDLE, VALIDATING, UNMOUNTING, FLASHING, VERIFYING, COMPLETED, ERROR, CANCELLED}

Terminal == {COMPLETED, ERROR, CANCELLED}

VARIABLES
  pc,          \* position of the flash thread inside flash_iso ("idle": no call)
  cpc,         \* position of the caller thread inside cancel_flash
  use_sudo,    \* self.use_sudo (constructor argument)
  status,      \* self._status
  stop,        \* self._stop_progress (threading.Event)
  cancelled,   \* self._cancelled
  bytes,       \* self._bytes_written
  isoSize,     \* self._iso_size
  args,        \* verify and sync_after of the running call, each fixed at the
               \* statement of flash_iso that reads it (FALSE until then)
  result,      \* flash_iso's local `result` dict
  flashResult, \* the dict returned by _safe_dd_write
  isoVal,      \* flash_iso's local iso_validation: valid, checksum
  dev,         \* facts of the target device as the pre-flight probes them
  devSize,     \* flash_iso's local device_size
  mounts,      \* mounted partitions whose device path starts with the target
  dd,          \* the sudo dd subprocess: none, running, exit0, exit1, killed
  devBytes,    \* blocks written to the target device in this session
  monAlive,    \* the _monitor_progress thread is running
  monLast,     \* last_bytes of _monitor_progress
  cancels,     \* cancel_flash calls made so far
  hist,        \* the status values taken during the session, in order
  stages,      \* the pipeline stages invoked in the session, in order
  cancelAt,    \* phases of the session in which cancel_flash was called
  late,        \* stages started after a cancel_flash call of this session
  failed,      \* 0, or the number of stages invoked when a stage failed
  scan,        \* the re-scan of _safe_unmount: "none", "done", or "raised"
               \* (an exception ended the call before the re-scan gave a list)
  fcall,       \* a call of validate_iso or _verify_flash made on its own:
               \* the function, its arguments, its return value (once done)
  main,        \* the globals of main.py (flash_in_progress, the selections,
               \* the buttons) and the flash threads its callbacks have started
  emitted      \* the values passed to the progress callback in the session, in order

vars == <<pc, cpc, use_sudo, status, stop, cancelled, bytes, isoSize, args,
          result, flashResult, isoVal, dev, devSize, mounts, dd, devBytes, monAlive,
          monLast, cancels, hist, stages, cancelAt, late, failed,
          scan, fcall, main,
          emitted>>

\* ----------------------------------------------------------------- helpers
NoResult == [success |-> FALSE, message |-> "", checksum_verified |-> FALSE,
             bytes_written |-> 0]

NoArgs == [verify |-> FALSE, sync_after |-> FALSE]

NoIsoVal == [valid |-> FALSE, checksum |-> ""]

NoFlashResult == [success |-> FALSE, message |-> "", bytes_written |-> 0]

NoDev == [exists |-> FALSE, inSysBlock |-> FALSE, sameMajor |-> FALSE,
          probeFails |-> FALSE, sd |-> FALSE, usb |-> FALSE, mounted |-> FALSE,
          ro |-> FALSE]

\* No call of a function on its own is under way.
NoCall == [fn |-> "none", done |-> FALSE]

\* main.py as imported: nothing selected, no flash in progress, the buttons
\* enabled, no flash thread started.
MainGlobals ==
  [flash_in_progress |-> FALSE, iso_path |-> FALSE, selected_device |-> FALSE,
   buttons |-> TRUE, clicks |-> 0, threads |-> [t \in 1..MaxClicks |-> "none"]]

\* self._set_status(s), with the session's record of the values taken.
SetStatus(s) ==
  /\ status' = s
  /\ hist' = IF pc # "idle" /\ s # status THEN Append(hist, s) ELSE hist

\* A pipeline stage is invoked: recorded in order, and as started after a
\* cancellation request when one was made earlier in the session, after
\* flash_iso had set Validating.
Invoke(stage) ==
  /\ stages' = Append(stages, stage)
  /\ late' = IF cancelAt \ {"entry"} # {} THEN late \cup {stage} ELSE late

NoInvoke == UNCHANGED <<stages, late>>

\* The phase of flash_iso at position p: the status flash_iso has set last
\* ("entry" before it set any, "return" once it set a terminal one), with the
\* copy loop of the write engine told apart from the rest of Flashing.
PhaseOf(p) ==
  CASE p \in {"clear_stop", "clear_cancelled", "clear_bytes", "set_validating"}
         -> "entry"
    [] p \in {"validate", "target", "size", "ro", "set_unmounting", "except",
              "except_status"} -> VALIDATING
    [] p \in {"unmount", "start_monitor", "set_flashing"} -> UNMOUNTING
    [] p \in {"w_poll", "w_loop", "w_write"} -> "copy"
    [] p \in {"w_perm", "w_popen", "w_after", "w_check", "stop_monitor", "join",
              "check_write", "end_cancelled", "end_error", "set_verifying"}
         -> FLASHING
    [] p \in {"verify"} -> VERIFYING
    [] p \in {"sync", "complete"} -> "finish"
    [] OTHER -> "return"

\* Groups of variables, for the UNCHANGED clauses.
threadVars == <<cpc, cancels, cancelAt>>
monVars == <<monAlive, monLast>>
envVars == <<dev, devSize, mounts, dd, devBytes>>
callVars == <<use_sudo, args>>
\* every variable of the flasher and its sessions
sessionVars == <<pc, cpc, use_sudo, status, stop, cancelled, bytes, isoSize,
                 args, result, flashResult, isoVal, dev, devSize, mounts, dd,
                 devBytes, monAlive, monLast, cancels, hist, stages, cancelAt,
                 late, failed, scan, emitted>>

\* ---------------------------------------------------------- pure functions
\* _is_system_disk: the device's major number equals the root filesystem's;
\* any exception while probing (the read of /sys/block/<name>/dev) gives False.
IsSystemDisk(sameMajor, probeFails) ==
  IF probeFails THEN FALSE ELSE sameMajor

\* _is_usb_device_linux: the removable attribute, a "usb" marker in
\* device/path or in the subsystem link, and for sd* names a walk of the
\* device directory.  In the walk the file test is
\*   file == "modalias" and "usb" in file
\* which no file name satisfies; only a directory named *usb* counts.
IsUsbDeviceLinux(sysfs, removableAttr, usbPath, usbSubsystem, sd, modalias, usbDir) ==
  IF ~sysfs THEN FALSE
  ELSE IF removableAttr THEN TRUE
  ELSE IF usbPath THEN TRUE
  ELSE IF usbSubsystem THEN TRUE
  ELSE IF sd /\ modalias /\ FALSE THEN TRUE
  ELSE IF sd /\ usbDir THEN TRUE
  ELSE FALSE

\* _validate_target_device on the probed facts d.
ValidateTargetDevice(d) ==
  IF ~d.exists THEN FALSE
  ELSE IF ~d.inSysBlock THEN FALSE
  ELSE IF IsSystemDisk(d.sameMajor, d.probeFails) THEN FALSE
  ELSE IF d.sd /\ ~d.usb /\ d.mounted THEN FALSE
  ELSE TRUE

\* len(header) < 32768, for the header f.read(32768) gives of a file of the
\* given length, with the boundary moved by one byte.
ShortHeader_Mut(length) == length[1] = 0 /\ length[2] <= HeaderLen

\* A byte length is a pair <<g, r>> standing for g * GiB + r with r < GiB.
\* result["size"] == 0
Empty(length) == length = <<0, 0>>

\* result["size"] > 10 * 1024 * 1024 * 1024
TooLarge(length) ==
  length[1] > MaxIsoGiB \/ (length[1] = MaxIsoGiB /\ length[2] > 0)

\* len(header) < 32768, for the header f.read(32768) gives of a file of the
\* given length.
ShortHeader(length) == length[1] = 0 /\ length[2] < HeaderLen

\* The byte lengths drawn: around each threshold validate_iso tests.
Lengths ==
  {<<0, 0>>, <<0, 1>>, <<0, HeaderLen - 1>>, <<0, HeaderLen>>,
   <<0, HeaderLen + 1>>, <<MaxIsoGiB - 1, GiB - 1>>, <<MaxIsoGiB, 0>>,
   <<MaxIsoGiB, 1>>}

\* The facts of a source image file that validate_iso looks at.  length is
\* the byte length stat() reports, size the same length counted in the blocks
\* of the copy; signature is what the first 32768 bytes hold; readError is
\* where an exception strikes while the file is examined ("stat": in stat(),
\* "header": in open() or the read of the header, "checksum": in the reads of
\* the checksum loop).  A path that does not exist is no file and cannot be
\* accessed.
Images ==
  {f \in [exists : BOOLEAN, regular : BOOLEAN, readable : BOOLEAN,
          length : Lengths, size : 0..MaxSize,
          signature : {"CD001", "hybrid", "none"},
          readError : {"none", "stat", "header", "checksum"}] :
     /\ f.size = 0 <=> Empty(f.length)
     /\ ~f.exists => /\ ~f.regular /\ ~f.readable /\ Empty(f.length)
                     /\ f.signature = "none" /\ f.readError = "none"}

\* validate_iso: the descriptor as it is before the first check.
NoDescriptor == [valid |-> FALSE, size |-> 0, error |-> "", checksum |-> "",
                 is_hybrid |-> FALSE]

\* validate_iso: the descriptor it returns.
ValidateIso(f) ==
  LET bad(e, n) == [valid |-> FALSE, size |-> n, error |-> e, checksum |-> "",
                    is_hybrid |-> FALSE]
      good(e, c) == [valid |-> TRUE, size |-> f.size, error |-> e,
                     checksum |-> c, is_hybrid |-> f.signature = "hybrid"]
  IN IF ~f.exists THEN bad("ISO file not found", 0)
     ELSE IF ~f.regular THEN bad("Not a regular file", 0)
     ELSE IF ~f.readable THEN bad("No read permission for ISO file", 0)
     ELSE IF f.readError = "stat" THEN bad("Error validating ISO", 0)
     ELSE IF Empty(f.length) THEN bad("ISO file is empty", 0)
     ELSE IF TooLarge(f.length)
       THEN bad("ISO file is too large (>10GB)", f.size)
     ELSE IF f.readError = "header" THEN bad("Cannot read ISO file", f.size)
     ELSE IF ShortHeader(f.length) THEN bad("ISO file is too small", f.size)
     \* every branch of the signature test has set valid by now
     ELSE IF f.readError = "checksum" THEN good("Cannot read ISO file", "")
     ELSE good("", "sha")

\* What the safety guard can probe of a target device.  A path that does not
\* exist has no other fact; a device without a /sys/block entry has no sysfs
\* attribute.
Probes ==
  {d \in [exists : BOOLEAN, inSysBlock : BOOLEAN, sameMajor : BOOLEAN,
          probeFails : BOOLEAN, sd : BOOLEAN, mounted : BOOLEAN,
          removableAttr : BOOLEAN, usbPath : BOOLEAN, usbSubsystem : BOOLEAN,
          modalias : BOOLEAN, usbDir : BOOLEAN] :
     /\ ~d.exists => ~(d.inSysBlock \/ d.mounted \/ d.sd)
     /\ ~d.inSysBlock =>
          ~(d.sameMajor \/ d.probeFails \/ d.removableAttr \/ d.usbPath
            \/ d.usbSubsystem \/ d.modalias \/ d.usbDir)}

\* The device as the session records it: usb is the classification
\* _is_usb_device_linux gives the device (whether or not the guard asks).
DeviceOf(d) ==
  [exists |-> d.exists, inSysBlock |-> d.inSysBlock, sameMajor |-> d.sameMajor,
   probeFails |-> d.probeFails, sd |-> d.sd, mounted |-> d.mounted,
   usb |-> IsUsbDeviceLinux(d.inSysBlock, d.removableAttr, d.usbPath,
                            d.usbSubsystem, d.sd, d.modalias, d.usbDir),
   ro |-> FALSE]

\* ----------------------------------------------------------- _verify_flash
\* The byte lengths of images drawn for _verify_flash: multiples of its
\* block size and lengths that are not.
VerifySizes ==
  {0, 1, HeaderLen, VerifyBlockSize - 1, VerifyBlockSize, VerifyBlockSize + 1,
   2 * VerifyBlockSize, 2 * VerifyBlockSize + HeaderLen}

\* The arguments and surroundings of a _verify_flash call.  size is the byte
\* length of the image; deviceSize what _get_device_size returns (0 when
\* both of its probes fail); agree the number of leading bytes in which the
\* device and the image agree (size: the first size bytes of the device are
\* the image); readable is os.access(device_path, os.R_OK); readFails: a
\* read of the device fails (dd or sha256sum exits non-zero, read() raises);
\* expected is the checksum handed in: "image" for the image's own digest,
\* "" for none, "other" for the digest of other content.
VerifyInputsOf(sudo, sizes) ==
  {v \in [sudo : {sudo}, readable : BOOLEAN, readFails : BOOLEAN,
          size : sizes, deviceSize : {0} \cup sizes,
          agree : {0, VerifyBlockSize - 1, VerifyBlockSize}
                    \cup {n - 1 : n \in sizes \ {0}} \cup sizes,
          expected : {"", "image", "other"}] :
     /\ v.agree <= v.size
     /\ v.deviceSize \in {0, v.size, v.size + 1,
                         2 * VerifyBlockSize + HeaderLen}
     /\ v.agree <= v.deviceSize}

\* The calls drawn with images of the lengths in VerifySizes.
VerifyInputs(sudo) == VerifyInputsOf(sudo, VerifySizes)

\* An image length at which the comparison loop reports progress: one chunk
\* more than the bytes between two reports.
ReportSizes == {ReportStep + VerifyBlockSize}

\* sha256 of the first a bytes of the image against sha256 of the first b
\* bytes of the device: equal digests for equal byte strings only.
SameDigest(a, b, agree) == a = b /\ agree >= a

\* One iteration of the comparison loop of the direct path; loop holds
\* bytes_compared, last_reported, whether a chunk differed (return False) and
\* the progress values emitted so far, in order (the whole part of each).
CompareChunk(v, loop) ==
  IF loop.differ \/ loop.bytes_compared >= v.size THEN loop
  ELSE LET bytes_to_read ==
             IF VerifyBlockSize < v.size - loop.bytes_compared
               THEN VerifyBlockSize ELSE v.size - loop.bytes_compared
           now == loop.bytes_compared + bytes_to_read
           progress == 95 + (now * 5) \div v.size
       IN IF v.agree < now THEN [loop EXCEPT !.differ = TRUE]
          ELSE IF now - loop.last_reported >= ReportStep
            THEN [loop EXCEPT !.bytes_compared = now,
                              !.last_reported = now,
                              !.progress = Append(@, IF progress < 100
                                                       THEN progress ELSE 100)]
            ELSE [loop EXCEPT !.bytes_compared = now]

\* n iterations of the loop in order, from the state loop; the loop is left
\* when a chunk differs.
RECURSIVE CompareLoop(_, _, _)
CompareLoop(v, loop, n) ==
  IF n = 0 THEN loop
  ELSE IF n = 1 THEN CompareChunk(v, loop)
  ELSE LET half == CompareLoop(v, loop, n \div 2)
       IN IF half.differ THEN half
          ELSE CompareLoop(v, half, n - n \div 2)

\* The loop run from bytes_compared = 0 until it ends: one iteration for
\* every chunk of the image.
CompareAll(v) ==
  CompareLoop(v, [bytes_compared |-> 0, last_reported |-> 0,
                  differ |-> FALSE, progress |-> <<>>],
              (v.size + VerifyBlockSize - 1) \div VerifyBlockSize)

\* What the loop decides: FALSE at the first chunk that differs, TRUE when the
\* loop ends.
CompareChunks(v) == ~CompareAll(v).differ

\* The progress values the loop emits: one every time 10 MiB or more have
\* been compared since the last one, until a chunk differs.
LoopProgress(v) == CompareAll(v).progress

\* The progress values a _verify_flash call emits: the privileged path has no
\* _progress_update call; the direct path reports from its loop.
VerifyProgress(v) ==
  IF v.deviceSize < v.size THEN <<>>
  ELSE IF v.sudo /\ ~v.readable THEN <<>>
  ELSE IF ~v.readable \/ v.readFails THEN <<>>
  ELSE LoopProgress(v)

\* What _verify_flash returns.
VerifyFlashResult(v) ==
  IF v.deviceSize < v.size THEN FALSE
  ELSE IF v.sudo /\ ~v.readable
    \* the image is hashed whole; sudo dd reads count = iso_size // block_size
    \* blocks of the device into sha256sum
    THEN LET hashed == (v.size \div VerifyBlockSize) * VerifyBlockSize
         IN /\ ~v.readFails
            /\ SameDigest(v.size, hashed, v.agree)
            /\ (v.expected # "" => v.expected = "image")
  \* open(device_path, "rb") raises when the device cannot be read
  ELSE /\ v.readable
       /\ ~v.readFails
       /\ CompareChunks(v)
       /\ (v.expected # "" => v.expected = "image")

\* ------------------------------------------------------------------- Init
\* The progress callback receives the values, in order; the session keeps
\* them, a value equal to the one before it once.
RECURSIVE Callback(_, _)
Callback(seen, values) ==
  IF values = <<>> THEN seen
  ELSE Callback(IF seen # <<>> /\ seen[Len(seen)] = Head(values)
                  THEN seen ELSE Append(seen, Head(values)),
                Tail(values))

\* self._progress_update(value, 100), for each of the values in turn.
Emit(values) == emitted' = Callback(emitted, values)

\* The copy progress with the cap left out and the slope too steep.
CopyProgress_Mut(bytes_written, input_size) ==
  10 + (bytes_written * 100) \div input_size

\* min(10 + (bytes_written / input_size) * 80, 90), its whole part.
CopyProgress(bytes_written, input_size) ==
  LET copied == 10 + (bytes_written * 80) \div input_size
  IN IF copied < 90 THEN copied ELSE 90

Constructed ==
  /\ pc = "idle"
  /\ cpc = "idle"
  /\ use_sudo \in BOOLEAN
  /\ status = IDLE
  /\ stop = FALSE
  /\ cancelled = FALSE
  /\ bytes = 0
  /\ isoSize = 0
  /\ args = NoArgs
  /\ result = NoResult
  /\ flashResult = NoFlashResult
  /\ isoVal = NoIsoVal
  /\ dev = NoDev
  /\ devSize = 0
  /\ mounts = 0
  /\ dd = "none"
  /\ devBytes = 0
  /\ monAlive = FALSE
  /\ monLast = 0
  /\ cancels = 0
  /\ hist = <<IDLE>>
  /\ stages = <<>>
  /\ cancelAt = {}
  /\ late = {}
  /\ failed = 0
  /\ scan = "none"
  /\ main = MainGlobals
  /\ emitted = <<>>

\* The flasher as constructed, no call under way.
Init == Constructed /\ fcall = NoCall

\* ------------------------------------------------- flash_iso: entry, reset
\* A return path of flash_iso after a failed stage: the message, ERROR, return.
Fail(msg) ==
  /\ result' = [result EXCEPT !.message = msg]
  /\ SetStatus(ERROR)
  /\ pc' = "ret"

\* The outcome of the stage just run, for the session's record: bad says the
\* stage failed (whatever flash_iso then does about it).
Outcome(bad) ==
  failed' = IF bad /\ failed = 0 THEN Len(stages') ELSE failed

\* flash_iso is called: its locals are fresh, the instance's fields are as the
\* previous call (or a cancel_flash) left them.
FlashIsoCall ==
  /\ pc = "idle"
  /\ args' = NoArgs
  /\ result' = NoResult
  /\ flashResult' = NoFlashResult
  /\ isoVal' = NoIsoVal
  /\ dev' = NoDev
  /\ devSize' = 0
  /\ mounts' = 0
  /\ scan' = "none"
  /\ dd' = "none"
  /\ devBytes' = 0
  /\ hist' = <<status>>
  /\ stages' = <<>>
  /\ cancelAt' = {}
  /\ late' = {}
  /\ failed' = 0
  /\ emitted' = <<>>
  /\ pc' = "clear_stop"
  /\ UNCHANGED <<cpc, cancels, use_sudo, status, stop, cancelled, bytes,
                 isoSize, monVars,
                 fcall, main>>

\* self._stop_progress.clear()
ClearStop ==
  /\ pc = "clear_stop"
  /\ stop' = FALSE
  /\ pc' = "clear_cancelled"
  /\ UNCHANGED <<status, cancelled, bytes, isoSize, result, flashResult,
                 isoVal, hist, stages, late, failed, threadVars, monVars,
                 envVars, callVars,
                 scan, fcall, main,
                 emitted>>

\* self._cancelled = False
ClearCancelled ==
  /\ pc = "clear_cancelled"
  /\ cancelled' = FALSE
  /\ pc' = "clear_bytes"
  /\ UNCHANGED <<status, stop, bytes, isoSize, result, flashResult,
                 isoVal, hist, stages, late, failed, threadVars, monVars,
                 envVars, callVars,
                 scan, fcall, main,
                 emitted>>

\* self._bytes_written = 0
ClearBytes ==
  /\ pc = "clear_bytes"
  /\ bytes' = 0
  /\ pc' = "set_validating"
  /\ UNCHANGED <<status, stop, cancelled, isoSize, result, flashResult,
                 isoVal, hist, stages, late, failed, threadVars, monVars,
                 envVars, callVars,
                 scan, fcall, main,
                 emitted>>

SetValidating ==
  /\ pc = "set_validating"
  /\ SetStatus(VALIDATING)
  /\ pc' = "validate"
  /\ UNCHANGED <<stop, cancelled, bytes, isoSize, result, flashResult,
                 isoVal, stages, late, failed, threadVars, monVars,
                 envVars, callVars,
                 scan, fcall, main,
                 emitted>>

\* ------------------------------------------------ flash_iso: the pre-flight
\* The image test left out: every descriptor is taken as valid.
ImageRejected_Mut(v) == FALSE

\* The size test off by one: an image of exactly the device's size is refused.
SizeRejected_Mut(deviceSize, imageSize) == deviceSize <= imageSize

\* The guard's verdict left out: every target is taken as approved.
TargetRejected_Mut(d) == FALSE

\* if not iso_validation["valid"]: ... return result
ImageRejected(v) == ~v.valid

\* if not self._validate_target_device(usb_device): ... return result
TargetRejected(d) == ~ValidateTargetDevice(d)

\* if device_size < self._iso_size: ... return result
SizeRejected(deviceSize, imageSize) == deviceSize < imageSize

\* validate_iso(iso_path) and the test of its "valid" field.
ValidateImage ==
  /\ pc = "validate"
  /\ Invoke("validate")
  /\ \E f \in Images :
       LET v == ValidateIso(f) IN
       /\ isoVal' = [valid |-> v.valid, checksum |-> v.checksum]
       /\ Outcome(~v.valid)
       /\ IF ImageRejected(v)
            THEN /\ Fail("Invalid ISO")
                 /\ UNCHANGED <<isoSize, emitted>>
            ELSE /\ isoSize' = v.size
                 /\ Emit(<<5>>)
                 /\ pc' = "target"
                 /\ UNCHANGED <<status, hist, result>>
  /\ UNCHANGED <<stop, cancelled, bytes, flashResult, threadVars, monVars,
                 envVars, callVars,
                 scan, fcall, main>>

\* _validate_target_device(usb_device): the safety guard.
ValidateTarget ==
  /\ pc = "target"
  /\ Invoke("guard")
  /\ \E d \in Probes :
       /\ dev' = DeviceOf(d)
       /\ Outcome(~ValidateTargetDevice(DeviceOf(d)))
       /\ IF TargetRejected(DeviceOf(d))
            THEN Fail("Invalid target device")
            ELSE /\ pc' = "size"
                 /\ UNCHANGED <<status, hist, result>>
  /\ UNCHANGED <<stop, cancelled, bytes, isoSize, flashResult, isoVal,
                 threadVars, monVars, devSize, mounts, dd, devBytes, callVars,
                 scan, fcall, main,
                 emitted>>

\* device_size = self._get_device_size(usb_device); the size guard.  The
\* probe returns 0 when both size queries fail, and raises when the output
\* of blockdev is no number (ValueError is not caught in _get_device_size).
CheckSize ==
  /\ pc = "size"
  /\ NoInvoke
  /\ \E n \in 0..MaxSize, raises \in BOOLEAN :
       IF raises
         THEN /\ pc' = "except"
              /\ Outcome(TRUE)
              /\ UNCHANGED <<devSize, status, hist, result>>
         ELSE /\ devSize' = n
              /\ Outcome(n < isoSize)
              /\ IF SizeRejected(n, isoSize)
                   THEN Fail("Target device is too small")
                   ELSE /\ pc' = "ro"
                        /\ UNCHANGED <<status, hist, result>>
  /\ UNCHANGED <<stop, cancelled, bytes, isoSize, flashResult, isoVal,
                 threadVars, monVars, dev, mounts, dd, devBytes, callVars,
                 scan, fcall, main,
                 emitted>>

\* The except clause of flash_iso: the stop event is set, then ERROR.
ExceptStop ==
  /\ pc = "except"
  /\ stop' = TRUE
  /\ pc' = "except_status"
  /\ UNCHANGED <<status, cancelled, bytes, isoSize, result, flashResult,
                 isoVal, hist, stages, late, failed, threadVars, monVars,
                 envVars, callVars,
                 scan, fcall, main,
                 emitted>>

ExceptStatus ==
  /\ pc = "except_status"
  /\ Fail("Failed to flash ISO")
  /\ UNCHANGED <<stop, cancelled, bytes, isoSize, flashResult, isoVal,
                 stages, late, failed, threadVars, monVars, envVars, callVars,
                 scan, fcall, main,
                 emitted>>

\* self._is_read_only(usb_device).
CheckReadOnly ==
  /\ pc = "ro"
  /\ NoInvoke
  /\ \E ro \in BOOLEAN :
       /\ dev' = [dev EXCEPT !.ro = ro]
       /\ Outcome(ro)
       /\ IF ro
            THEN Fail("Target device is read-only")
            ELSE /\ pc' = "set_unmounting"
                 /\ UNCHANGED <<status, hist, result>>
  /\ UNCHANGED <<stop, cancelled, bytes, isoSize, flashResult, isoVal,
                 threadVars, monVars, devSize, mounts, dd, devBytes, callVars,
                 scan, fcall, main,
                 emitted>>

\* device_size is not read again once the size guard has passed.
SetUnmounting ==
  /\ pc = "set_unmounting"
  /\ SetStatus(UNMOUNTING)
  /\ devSize' = 0
  /\ pc' = "unmount"
  /\ UNCHANGED <<stop, cancelled, bytes, isoSize, result, flashResult,
                 isoVal, stages, late, failed, threadVars, monVars,
                 dev, mounts, dd, devBytes, callVars,
                 scan, fcall, main,
                 emitted>>

\* A _safe_unmount that answers TRUE whatever its re-scan finds.
SafeUnmountResult_Mut(left, raised) == ~raised

\* What _safe_unmount returns: False when an exception ended it before the
\* re-scan was evaluated (except Exception), else whether the re-scan found
\* no partition of the device still mounted (left = 0).
SafeUnmountResult(left, raised) == ~raised /\ left = 0

\* _safe_unmount(usb_device): parts partitions are mounted under the device
\* (the device itself when the guard saw it mounted), left of them are still
\* mounted after the umount commands and the settle wait; raised says that
\* psutil.disk_partitions raised, so that the re-scan gave no list.
SafeUnmount ==
  /\ pc = "unmount"
  /\ Invoke("unmount")
  /\ \E parts \in (IF dev.mounted THEN 1 ELSE 0)..MaxParts :
       \E left \in 0..parts, raised \in BOOLEAN :
         /\ mounts' = left
         /\ scan' = IF raised THEN "raised" ELSE "done"
         /\ dev' = [dev EXCEPT !.mounted = (left # 0)]
         /\ Outcome(~SafeUnmountResult(left, raised))
         /\ IF ~SafeUnmountResult(left, raised)
              THEN Fail("Failed to unmount device") /\ UNCHANGED emitted
              ELSE /\ Emit(<<10>>)
                   /\ pc' = "start_monitor"
                   /\ UNCHANGED <<status, hist, result>>
  /\ UNCHANGED <<stop, cancelled, bytes, isoSize, flashResult, isoVal,
                 threadVars, monVars, devSize, dd, devBytes, callVars,
                 fcall, main>>

\* The progress thread is created and started.
StartMonitor ==
  /\ pc = "start_monitor"
  /\ monAlive' = TRUE
  /\ monLast' = 0
  /\ pc' = "set_flashing"
  /\ UNCHANGED <<status, stop, cancelled, bytes, isoSize, result, flashResult,
                 isoVal, hist, stages, late, failed, threadVars, envVars,
                 callVars,
                 scan, fcall, main,
                 emitted>>

SetFlashing ==
  /\ pc = "set_flashing"
  /\ SetStatus(FLASHING)
  /\ pc' = "w_perm"
  /\ UNCHANGED <<stop, cancelled, bytes, isoSize, result, flashResult,
                 isoVal, stages, late, failed, threadVars, monVars,
                 envVars, callVars,
                 scan, fcall, main,
                 emitted>>

\* ------------------------------------------------------ _safe_dd_write
WriteCancelled == [success |-> FALSE, message |-> "Write operation cancelled",
                   bytes_written |-> 0]

WriteFailed(msg) == [success |-> FALSE, message |-> msg, bytes_written |-> 0]

WriteDone(n) == [success |-> TRUE, message |-> "", bytes_written |-> n]

\* Entry of the write engine: the write-permission test on the device.  The
\* facts the pre-flight probed are not consulted from here on.
WritePermission ==
  /\ pc = "w_perm"
  /\ Invoke("write")
  /\ dev' = NoDev
  /\ \E writable \in BOOLEAN :
       /\ Outcome(~writable)
       /\ IF ~writable
            THEN /\ flashResult' = WriteFailed("No write permission for device")
                 /\ pc' = "stop_monitor"
            ELSE /\ pc' = IF use_sudo THEN "w_popen" ELSE "w_loop"
                 /\ UNCHANGED flashResult
  /\ UNCHANGED <<status, stop, cancelled, bytes, isoSize, result, isoVal,
                 hist, threadVars, monVars, devSize, mounts, dd, devBytes,
                 callVars,
                 scan, fcall, main,
                 emitted>>

\* Privileged strategy: sudo dd is started as a subprocess.
DdPopen ==
  /\ pc = "w_popen"
  /\ dd' = "running"
  /\ pc' = "w_poll"
  /\ UNCHANGED <<status, stop, cancelled, bytes, isoSize, result, flashResult,
                 isoVal, hist, stages, late, failed, threadVars, monVars,
                 dev, devSize, mounts, devBytes, callVars,
                 scan, fcall, main,
                 emitted>>

\* while dd_process.poll() is None and not stop: sleep, then the read cursor
\* of src (never read from, so 0) becomes the byte counter.
DdPoll ==
  /\ pc = "w_poll"
  /\ IF dd = "running" /\ ~stop
       THEN /\ bytes' = 0
            /\ Emit(<<CopyProgress(0, isoSize)>>)
            /\ pc' = "w_poll"
       ELSE /\ pc' = "w_after"
            /\ UNCHANGED <<bytes, emitted>>
  /\ UNCHANGED <<status, stop, cancelled, isoSize, result, flashResult,
                 isoVal, hist, stages, late, failed, threadVars, monVars,
                 envVars, callVars,
                 scan, fcall, main>>

\* After the poll loop: cancelled (dd terminated, killed after the grace
\* period), failed (non-zero exit status) or done.
DdAfter ==
  /\ pc = "w_after"
  /\ NoInvoke
  /\ IF stop
       THEN /\ dd' = IF dd = "running" THEN "killed" ELSE dd
            /\ flashResult' = WriteCancelled
            /\ UNCHANGED failed
       ELSE /\ dd' = dd
            /\ Outcome(dd # "exit0")
            /\ flashResult' = IF dd # "exit0"
                                THEN WriteFailed("dd command failed")
                                ELSE WriteDone(isoSize)
  /\ pc' = "stop_monitor"
  /\ UNCHANGED <<status, stop, cancelled, bytes, isoSize, result, isoVal,
                 hist, threadVars, monVars, dev, devSize, mounts, devBytes,
                 callVars,
                 scan, fcall, main,
                 emitted>>

\* The dd subprocess copies one more block to the device.
DdBlock ==
  /\ dd = "running"
  /\ devBytes < isoSize
  /\ devBytes' = devBytes + 1
  /\ UNCHANGED <<pc, status, stop, cancelled, bytes, isoSize, result,
                 flashResult, isoVal, hist, stages, late, failed, threadVars,
                 monVars, dev, devSize, mounts, dd, callVars,
                 scan, fcall, main,
                 emitted>>

\* The dd subprocess exits: with status 0 once the image is copied, or with
\* an error at any point.
DdExit ==
  /\ dd = "running"
  /\ \/ devBytes = isoSize /\ dd' = "exit0"
     \/ dd' = "exit1"
  /\ UNCHANGED <<pc, status, stop, cancelled, bytes, isoSize, result,
                 flashResult, isoVal, hist, stages, late, failed, threadVars,
                 monVars, dev, devSize, mounts, devBytes, callVars,
                 scan, fcall, main,
                 emitted>>

\* Direct strategy, the head of a turn of  while not stop:  the event is
\* tested and the next block read; an empty read ends the loop.
DirectBlock ==
  /\ pc = "w_loop"
  /\ pc' = IF stop \/ bytes = isoSize THEN "w_check" ELSE "w_write"
  /\ UNCHANGED <<status, stop, cancelled, bytes, isoSize, result, flashResult,
                 isoVal, hist, stages, late, failed, threadVars, monVars,
                 envVars, callVars,
                 scan, fcall, main,
                 emitted>>

\* except IOError as e: result["message"] = f"I/O error during write: {e}",
\* for an e with errno 28 (nospace) or with another errno.
IOErrorMessage(nospace) ==
  IF nospace
    THEN "I/O error during write: [Errno 28] No space left on device"
    ELSE "I/O error during write: [Errno 5] Input/output error"

\* A counter that steps back on every other block.
CountChunk_Mut(bytes_written) ==
  IF bytes_written = 0 THEN 1 ELSE bytes_written - 1

\* bytes_written += len(chunk); self._bytes_written = bytes_written
CountChunk(bytes_written) == bytes_written + 1

\* Direct strategy, dest.write(chunk): the block is written and counted, or
\* the write raises IOError (errno 28: returned at once; any other: re-raised
\* to the handler of _safe_dd_write).
DirectWrite ==
  /\ pc = "w_write"
  /\ NoInvoke
  /\ \E outcome \in {"written", "enospc", "ioerror"} :
       IF outcome = "written"
         THEN /\ bytes' = CountChunk(bytes)
              /\ devBytes' = devBytes + 1
              \* if bytes_written % (10 * 1024 * 1024) == 0: a block of the
              \* model is block_size bytes, a multiple of 10 MiB
              /\ Emit(<<CopyProgress(bytes', isoSize)>>)
              /\ pc' = "w_loop"
              /\ UNCHANGED <<flashResult, failed>>
         ELSE /\ Outcome(TRUE)
              /\ flashResult' =
                   WriteFailed(IF outcome = "enospc"
                                 THEN "No space left on device"
                                 ELSE IOErrorMessage(FALSE))
              /\ pc' = "stop_monitor"
              /\ UNCHANGED <<bytes, devBytes, emitted>>
  /\ UNCHANGED <<status, stop, cancelled, isoSize, result, isoVal, hist,
                 threadVars, monVars, dev, devSize, mounts, dd, callVars,
                 scan, fcall, main>>

\* Direct strategy, after the loop: cancelled, or flush and fsync (an error
\* of which, errno 28 included, is an IOError caught by the handler of
\* _safe_dd_write).
DirectFinish ==
  /\ pc = "w_check"
  /\ NoInvoke
  /\ IF stop
       THEN /\ flashResult' = WriteCancelled
            /\ UNCHANGED failed
       ELSE \E outcome \in {"synced", "enospc", "ioerror"} :
              /\ Outcome(outcome # "synced")
              /\ flashResult' =
                   IF outcome = "synced" THEN WriteDone(bytes)
                   ELSE WriteFailed(IOErrorMessage(outcome = "enospc"))
  /\ pc' = "stop_monitor"
  /\ UNCHANGED <<status, stop, cancelled, bytes, isoSize, result, isoVal,
                 hist, threadVars, monVars, envVars, callVars,
                 scan, fcall, main,
                 emitted>>

\* --------------------------------------------- flash_iso: after the write
\* self._stop_progress.set()
StopMonitor ==
  /\ pc = "stop_monitor"
  /\ stop' = TRUE
  /\ pc' = "join"
  /\ UNCHANGED <<status, cancelled, bytes, isoSize, result, flashResult,
                 isoVal, hist, stages, late, failed, threadVars, monVars,
                 envVars, callVars,
                 scan, fcall, main,
                 emitted>>

\* self._progress_thread.join(timeout=5.0): the monitor, which polls the
\* event every 0.5 s, has ended.
JoinMonitor ==
  /\ pc = "join"
  /\ ~monAlive
  /\ pc' = "check_write"
  /\ UNCHANGED <<status, stop, cancelled, bytes, isoSize, result, flashResult,
                 isoVal, hist, stages, late, failed, threadVars, monVars,
                 envVars, callVars,
                 scan, fcall, main,
                 emitted>>

\* The verification branch left out.
AfterWrite_Mut(verify) == "sync"

\* if not flash_result["success"] or self._cancelled:
WriteRejected(fr, c) == ~fr.success \/ c

\* FlashStatus.CANCELLED if self._cancelled else FlashStatus.ERROR
WriteEndStatus(c) == IF c THEN CANCELLED ELSE ERROR

\* if verify: on to _verify_flash, else on to the sync
AfterWrite(verify) == IF verify THEN "set_verifying" ELSE "sync"

\* The test of the write engine's result.  On the rejecting branch the
\* status to set is chosen here, from _cancelled as read now; _set_status
\* is called with it in the next step.
CheckWrite ==
  /\ pc = "check_write"
  /\ IF WriteRejected(flashResult, cancelled)
       THEN /\ result' = [result EXCEPT !.message = flashResult.message]
            /\ pc' = IF WriteEndStatus(cancelled) = CANCELLED
                       THEN "end_cancelled" ELSE "end_error"
            /\ UNCHANGED <<args, emitted>>
       ELSE /\ result' = [result EXCEPT
                            !.bytes_written = flashResult.bytes_written]
            /\ Emit(<<95>>)
            /\ \E verify \in BOOLEAN :
                 /\ args' = [args EXCEPT !.verify = verify]
                 /\ pc' = AfterWrite(verify)
  /\ UNCHANGED <<status, hist, stop, cancelled, bytes, isoSize, flashResult,
                 isoVal, stages, late, failed, threadVars, monVars, envVars,
                 use_sudo,
                 scan, fcall, main>>

\* self._set_status(<the status chosen by the test>); return result
WriteEnd ==
  /\ pc \in {"end_cancelled", "end_error"}
  /\ SetStatus(IF pc = "end_cancelled" THEN CANCELLED ELSE ERROR)
  /\ pc' = "ret"
  /\ UNCHANGED <<stop, cancelled, bytes, isoSize, result, flashResult,
                 isoVal, stages, late, failed, threadVars, monVars, envVars,
                 callVars,
                 scan, fcall, main,
                 emitted>>

SetVerifying ==
  /\ pc = "set_verifying"
  /\ SetStatus(VERIFYING)
  /\ pc' = "verify"
  /\ UNCHANGED <<stop, cancelled, bytes, isoSize, result, flashResult,
                 isoVal, stages, late, failed, threadVars, monVars,
                 envVars, callVars,
                 scan, fcall, main,
                 emitted>>

\* A flash_iso that never records the verification in its result.
ChecksumVerified_Mut(verify_success) == FALSE

\* result["checksum_verified"] = verify_success
ChecksumVerified(verify_success) == verify_success

\* _verify_flash(iso_path, usb_device, iso_validation["checksum"]) and the
\* test of its result.
VerifyFlash ==
  /\ pc = "verify"
  /\ Invoke("verify")
  /\ \E v \in VerifyInputs(use_sudo) \cup VerifyInputsOf(use_sudo, ReportSizes) :
       LET ok == VerifyFlashResult(v) IN
       \* the image has passed validate_iso; the checksum is the one it gave
       /\ v.size >= HeaderLen
       /\ v.expected = (IF isoVal.checksum = "" THEN "" ELSE "image")
       /\ Outcome(~ok)
       /\ Emit(VerifyProgress(v))
       /\ IF ok
            THEN /\ result' = [result EXCEPT
                                 !.checksum_verified = ChecksumVerified(ok)]
                 /\ pc' = "sync"
                 /\ UNCHANGED <<status, hist>>
            ELSE Fail("Flash verification failed")
  /\ UNCHANGED <<stop, cancelled, bytes, isoSize, flashResult, isoVal,
                 threadVars, monVars, envVars, callVars,
                 scan, fcall, main>>

\* if sync_after: self._safe_sync()
SafeSync ==
  /\ pc = "sync"
  /\ \E sync_after \in BOOLEAN :
       /\ args' = [args EXCEPT !.sync_after = sync_after]
       /\ IF sync_after THEN Invoke("sync") ELSE NoInvoke
  /\ pc' = "complete"
  /\ UNCHANGED <<status, stop, cancelled, bytes, isoSize, result, flashResult,
                 isoVal, hist, failed, threadVars, monVars, envVars,
                 use_sudo,
                 scan, fcall, main,
                 emitted>>

\* result["success"] = True ... self._set_status(FlashStatus.COMPLETED)
Complete ==
  /\ pc = "complete"
  /\ Emit(<<100>>)
  /\ result' = [result EXCEPT !.success = TRUE,
                              !.message = "Flash completed successfully!"]
  /\ SetStatus(COMPLETED)
  /\ pc' = "ret"
  /\ UNCHANGED <<stop, cancelled, bytes, isoSize, flashResult, isoVal,
                 stages, late, failed, threadVars, monVars, envVars, callVars,
                 scan, fcall, main>>

\* return result
Return ==
  /\ pc = "ret"
  /\ pc' = "idle"
  /\ UNCHANGED <<status, stop, cancelled, bytes, isoSize, result, flashResult,
                 isoVal, hist, stages, late, failed, threadVars, monVars,
                 envVars, callVars,
                 scan, fcall, main,
                 emitted>>

\* ----------------------------------------------------------- cancel_flash
\* The call and its first statement, self._stop_progress.set().
CancelCall ==
  /\ cpc = "idle"
  /\ cancels < MaxCancels
  /\ cancels' = cancels + 1
  /\ stop' = TRUE
  /\ cancelAt' = IF pc # "idle" THEN cancelAt \cup {PhaseOf(pc)} ELSE cancelAt
  /\ cpc' = "set_cancelled"
  /\ UNCHANGED <<pc, status, cancelled, bytes, isoSize, result, flashResult,
                 isoVal, hist, stages, late, failed, monVars, envVars,
                 callVars,
                 scan, fcall, main,
                 emitted>>

\* self._cancelled = True
CancelFlag ==
  /\ cpc = "set_cancelled"
  /\ cancelled' = TRUE
  /\ cpc' = "set_status"
  /\ UNCHANGED <<pc, status, stop, bytes, isoSize, result, flashResult,
                 isoVal, hist, stages, late, failed, cancels, cancelAt,
                 monVars, envVars, callVars,
                 scan, fcall, main,
                 emitted>>

\* self._set_status(FlashStatus.CANCELLED); return True
CancelStatus ==
  /\ cpc = "set_status"
  /\ SetStatus(CANCELLED)
  /\ cpc' = "idle"
  /\ UNCHANGED <<pc, stop, cancelled, bytes, isoSize, result, flashResult,
                 isoVal, stages, late, failed, cancels, cancelAt, monVars,
                 envVars, callVars,
                 scan, fcall, main,
                 emitted>>

\* ------------------------------------------------------ _monitor_progress
\* One turn of the loop: the byte counter is sampled.
MonitorSample ==
  /\ monAlive
  /\ ~stop
  /\ monLast' = bytes
  /\ UNCHANGED <<pc, status, stop, cancelled, bytes, isoSize, result,
                 flashResult, isoVal, hist, stages, late, failed, threadVars,
                 monAlive, envVars, callVars,
                 scan, fcall, main,
                 emitted>>

\* The loop test finds the stop event set: the thread ends.
MonitorExit ==
  /\ monAlive
  /\ stop
  /\ monAlive' = FALSE
  /\ monLast' = 0
  /\ UNCHANGED <<pc, status, stop, cancelled, bytes, isoSize, result,
                 flashResult, isoVal, hist, stages, late, failed, threadVars,
                 envVars, callVars,
                 scan, fcall, main,
                 emitted>>

\* ------------------------------------------------------------------ Spec
Next ==
  \/ FlashIsoCall \/ ClearStop \/ ClearCancelled \/ ClearBytes
  \/ SetValidating \/ ValidateImage \/ ValidateTarget \/ CheckSize
  \/ ExceptStop \/ ExceptStatus \/ CheckReadOnly \/ SetUnmounting
  \/ SafeUnmount \/ StartMonitor \/ SetFlashing \/ WritePermission
  \/ DdPopen \/ DdPoll \/ DdAfter \/ DdBlock \/ DdExit
  \/ DirectBlock \/ DirectWrite \/ DirectFinish \/ StopMonitor \/ JoinMonitor \/ CheckWrite
  \/ WriteEnd  \/ SetVerifying \/ VerifyFlash \/ SafeSync \/ Complete \/ Return
  \/ CancelCall \/ CancelFlag \/ CancelStatus
  \/ MonitorSample \/ MonitorExit

Spec == Init /\ [][Next]_vars

\* ------------------------------------------- validate_iso called on its own
\* (as the file dialog of main.py calls it): every image file, one call.
IsoInit ==
  /\ Constructed
  /\ fcall \in {[fn |-> "validate_iso", done |-> FALSE, arg |-> f,
                 ret |-> NoDescriptor] : f \in Images}

\* The call returns its descriptor.
ValidateIsoCall ==
  /\ fcall.fn = "validate_iso"
  /\ ~fcall.done
  /\ fcall' = [fcall EXCEPT !.done = TRUE, !.ret = ValidateIso(fcall.arg)]
  /\ UNCHANGED <<sessionVars, main>>

IsoSpec == IsoInit /\ [][ValidateIsoCall]_vars

\* ------------------------------------------ _verify_flash called on its own
VerifyInit ==
  /\ Constructed
  /\ fcall \in {[fn |-> "_verify_flash", done |-> FALSE, arg |-> v,
                 ret |-> FALSE, progress |-> <<>>] :
                  v \in VerifyInputsOf(use_sudo,
                                       VerifySizes \cup ReportSizes)}

\* The call returns.
VerifyFlashCall ==
  /\ fcall.fn = "_verify_flash"
  /\ ~fcall.done
  /\ fcall' = [fcall EXCEPT !.done = TRUE,
                            !.ret = VerifyFlashResult(fcall.arg),
                            !.progress = VerifyProgress(fcall.arg)]
  /\ UNCHANGED <<sessionVars, main>>

VerifySpec == VerifyInit /\ [][VerifyFlashCall]_vars

\* ------------------------------------------------------------------ main.py
\* The GUI thread runs the callbacks one at a time; every click of the flash
\* button that passes flash_callback starts a thread running flash_thread.
\* browse_iso: a file is chosen and validated (iso_path set) or not (None).
BrowseIso ==
  /\ main.buttons
  /\ \E chosen \in BOOLEAN : main' = [main EXCEPT !.iso_path = chosen]
  /\ UNCHANGED <<sessionVars, fcall>>

\* dropdown_callback: a device is selected, or "No device selected".
DropdownCallback ==
  /\ \E chosen \in BOOLEAN : main' = [main EXCEPT !.selected_device = chosen]
  /\ UNCHANGED <<sessionVars, fcall>>

\* if flash_in_progress: ... return
FlashRefused(m) == m.flash_in_progress

\* flash_callback: a click on the enabled flash button.
FlashCallback ==
  /\ main.buttons
  /\ main.clicks < MaxClicks
  /\ LET t == main.clicks + 1 IN
       IF FlashRefused(main) \/ ~main.iso_path \/ ~main.selected_device
         THEN main' = [main EXCEPT !.clicks = t]
         ELSE main' = [main EXCEPT !.clicks = t, !.threads[t] = "start"]
  /\ UNCHANGED <<sessionVars, fcall>>

\* flash_thread: if iso_path and selected_device: flash_in_progress = True
ThreadTest(t) ==
  /\ main.threads[t] = "start"
  /\ IF main.iso_path /\ main.selected_device
       THEN main' = [main EXCEPT !.flash_in_progress = TRUE,
                                 !.threads[t] = "disable"]
       ELSE main' = [main EXCEPT !.threads[t] = "done"]
  /\ UNCHANGED <<sessionVars, fcall>>

\* GooeyButton_SetEnabled(..., False), the flash button last
ThreadDisable(t) ==
  /\ main.threads[t] = "disable"
  /\ main' = [main EXCEPT !.buttons = FALSE, !.threads[t] = "call"]
  /\ UNCHANGED <<sessionVars, fcall>>

\* result = flasher.flash_iso(iso_path, selected_device): the call starts
ThreadFlashIso(t) ==
  /\ main.threads[t] = "call"
  /\ main' = [main EXCEPT !.threads[t] = "flash_iso"]
  /\ UNCHANGED <<sessionVars, fcall>>

\* flash_iso has returned
ThreadReturned(t) ==
  /\ main.threads[t] = "flash_iso"
  /\ main' = [main EXCEPT !.threads[t] = "enable"]
  /\ UNCHANGED <<sessionVars, fcall>>

\* GooeyButton_SetEnabled(..., True), the flash button last
ThreadEnable(t) ==
  /\ main.threads[t] = "enable"
  /\ main' = [main EXCEPT !.buttons = TRUE, !.threads[t] = "clear"]
  /\ UNCHANGED <<sessionVars, fcall>>

\* flash_in_progress = False
ThreadClear(t) ==
  /\ main.threads[t] = "clear"
  /\ main' = [main EXCEPT !.flash_in_progress = FALSE, !.threads[t] = "done"]
  /\ UNCHANGED <<sessionVars, fcall>>

\* flasher = SafeISOFlasher(verbose=False): use_sudo is the default, True.
MainInit == Init /\ use_sudo

MainNext ==
  \/ BrowseIso \/ DropdownCallback \/ FlashCallback
  \/ \E t \in 1..MaxClicks :
       \/ ThreadTest(t) \/ ThreadDisable(t) \/ ThreadFlashIso(t)
       \/ ThreadReturned(t) \/ ThreadEnable(t) \/ ThreadClear(t)

MainSpec == MainInit /\ [][MainNext]_vars

\* ---------------------------------------- list_usb_devices called on its own
\* fcall.arg: the platform, the names (1..MaxDevices, in the order of the
\* device paths) of the block devices the loop has gone through, and what the
\* probes of each of them gave; fcall.ret: the list `devices`.
\* The test of the loop body of _list_usb_devices_linux: the device d, whose
\* size probe gives size (raises: the probe raises), is appended.
ListsDevice(d, size, raises) ==
  /\ ~IsSystemDisk(d.sameMajor, d.probeFails)
  /\ IsUsbDeviceLinux(d.inSysBlock, d.removableAttr, d.usbPath,
                      d.usbSubsystem, d.sd, d.modalias, d.usbDir)
  /\ ~raises
  /\ size # 0

\* devices.sort(key=lambda x: x.device)
SortByDevice(devices) ==
  [i \in 1..Len(devices) |->
     CHOOSE e \in {devices[j] : j \in 1..Len(devices)} :
       Cardinality({j \in 1..Len(devices) : devices[j].device < e.device})
         = i - 1]

ListInit ==
  /\ Constructed
  /\ fcall \in {[fn |-> "list_usb_devices", done |-> FALSE,
                 arg |-> [platform |-> p, seen |-> {}, probed |-> {}],
                 ret |-> <<>>] :
                  p \in {"linux", "darwin", "win32", "other"}}

\* One turn of the loop of _list_usb_devices_linux, over the next block
\* device lsblk has reported as a disk.
ListDevice ==
  /\ fcall.fn = "list_usb_devices"
  /\ ~fcall.done
  /\ fcall.arg.platform = "linux"
  /\ \E name \in (1..MaxDevices) \ fcall.arg.seen :
       \E d \in {x \in Probes : x.exists /\ x.inSysBlock} :
         \E size \in 0..MaxSize, raises \in BOOLEAN, ro \in BOOLEAN :
           fcall' =
             [fcall EXCEPT
                !.arg.seen = @ \cup {name},
                !.arg.probed = @ \cup {[device |-> name,
                                        sameMajor |-> d.sameMajor,
                                        probeFails |-> d.probeFails,
                                        usb |-> DeviceOf(d).usb,
                                        size |-> size,
                                        raises |-> raises]},
                !.ret = IF ListsDevice(d, size, raises)
                          THEN Append(@, [device |-> name,
                                          sameMajor |-> d.sameMajor,
                                          usb |-> DeviceOf(d).usb,
                                          total_size |-> size,
                                          mounted |-> d.mounted,
                                          read_only |-> ro])
                          ELSE @]
  /\ UNCHANGED <<sessionVars, main>>

\* list_usb_devices sorts the list and returns it.
ListReturn ==
  /\ fcall.fn = "list_usb_devices"
  /\ ~fcall.done
  /\ fcall' = [fcall EXCEPT !.done = TRUE, !.ret = SortByDevice(@)]
  /\ UNCHANGED <<sessionVars, main>>

ListNext == ListDevice \/ ListReturn

ListSpec == ListInit /\ [][ListNext]_vars

\* ------------------------------------------- _safe_unmount called on its own
\* fcall.arg.mounted: the partitions (1..MaxParts) of the device that are
\* mounted; fcall.ret: one record per call made, in order.
\* An unmount loop that goes over every partition of the device, mounted or
\* not.
UmountTargets_Mut(mounted) == 1..MaxParts

\* for partition in psutil.disk_partitions(all=True):
\*     if partition.device.startswith(device_path): ... umount
UmountTargets(mounted) == mounted

UnmountInit ==
  /\ Constructed
  /\ fcall \in {[fn |-> "_safe_unmount", done |-> FALSE,
                 arg |-> [mounted |-> m], ret |-> <<>>] :
                  m \in SUBSET (1..MaxParts)}

\* One call of _safe_unmount.  available: the umount command (and sudo under
\* use_sudo) can be executed, else _run_command raises FlashError; busy: the
\* partitions whose umount exits non-zero, which _run_command(check=False)
\* returns like a success; raised: where psutil.disk_partitions raises.
SafeUnmountCall ==
  /\ fcall.fn = "_safe_unmount"
  /\ ~fcall.done
  /\ \E available \in BOOLEAN, busy \in SUBSET (1..MaxParts),
        raised \in {"none", "scan", "rescan"} :
       LET mounted == fcall.arg.mounted
           plain == IF raised = "scan" THEN {} ELSE UmountTargets(mounted)
           \* except FlashError: ... umount -f
           forced == IF available THEN {} ELSE plain
           released == IF available THEN (plain \cap mounted) \ busy ELSE {}
           left == mounted \ released
       IN fcall' =
            [fcall EXCEPT
               !.arg.mounted = left,
               !.done = (Len(fcall.ret) = 1),
               !.ret = Append(@,
                  [ret |-> SafeUnmountResult(Cardinality(left),
                                             raised # "none"),
                   raised |-> raised, before |-> mounted, plain |-> plain,
                   forced |-> forced, failed |-> plain \ released])]
  /\ UNCHANGED <<sessionVars, main>>

UnmountSpec == UnmountInit /\ [][SafeUnmountCall]_vars

\* ============================================================= properties
\* C1: the write engine is never entered on a target that is the system disk
\* (its major number equals that of the root filesystem), also when the
\* probe that reads the device's major number fails.
C1_SystemDiskNeverWritten ==
  pc = "w_perm" => ~dev.sameMajor

\* C2: for every device name (sd-prefixed or not) and every mount state, the
\* write engine is never entered on a target that _is_usb_device_linux does
\* not classify as removable.
C2_NonRemovableNeverWritten ==
  pc = "w_perm" => dev.usb

\* C3: once validate_iso has returned a descriptor with valid = false, the
\* safety guard, the unmount and the write are never invoked: validation is
\* the only stage of the session, flash_iso sets Error as its last status and
\* returns without success; the status is Error unless a cancel_flash call
\* has set Cancelled.
C3_InvalidImageHalts ==
  (Len(stages) >= 1 /\ ~isoVal.valid) =>
    /\ stages = <<"validate">>
    /\ pc \in {"ret", "idle"}
    /\ ~result.success
    /\ pc = "ret" =>
         SelectSeq(Tail(hist), LAMBDA s : s # CANCELLED) = <<VALIDATING, ERROR>>
    /\ status \in {ERROR, CANCELLED}
    /\ cancels = 0 => status = ERROR

C3_Witness ==
  /\ pc = "ret"
  /\ stages = <<"validate">>
  /\ ~isoVal.valid
  /\ status = ERROR
  /\ ~result.success

C5_TerminalIsFinal ==
  [][(pc # "idle" /\ pc' # "idle" /\ cancelAt \ {"entry"} # {}
        /\ Len(hist) > 1 /\ status \in Terminal)
       => status' = status]_vars

\* C6: if cancel_flash is called during a session (after flash_iso has set
\* Validating and before it has set its last status) and a stage of the
\* session fails, the status when flash_iso returns is Cancelled.
C6_CancelBeatsError ==
  (pc = "ret" /\ cancelAt \ {"entry", "return"} # {} /\ failed # 0)
    => status = CANCELLED

\* C7: if cancel_flash is called while the write engine is in its copy loop
\* (between two blocks or two polls, in either strategy), flash_iso returns
\* success = false, _verify_flash is not invoked in the session, and the
\* final status, once flash_iso and cancel_flash have both returned, is
\* Cancelled.
C7_CancelDuringCopy ==
  ("copy" \in cancelAt /\ pc = "idle" /\ cpc = "idle") =>
    /\ ~result.success
    /\ "verify" \notin {stages[i] : i \in 1..Len(stages)}
    /\ status = CANCELLED

\* C8: if cancel_flash is called while the session is in Validating,
\* Unmounting, Flashing or Verifying, no pipeline stage is started after the
\* request, and the session ends with status Cancelled and success = false.
C8_CancelHalts ==
  (cancelAt \cap {VALIDATING, UNMOUNTING, FLASHING, "copy", VERIFYING} # {}) =>
    /\ late \cap {"guard", "unmount", "write", "verify", "sync"} = {}
    /\ pc = "ret" => (status = CANCELLED /\ ~result.success)

\* C9: the stages are invoked in the order validate, guard, unmount, write,
\* verify (then sync), and once a stage has failed no further stage is
\* invoked, flash_iso returns success = false, and the status at the return
\* is Error (or Cancelled, which only a cancel_flash call brings about).
C9_StagesInOrderHaltOnFailure ==
  LET order == <<"validate", "guard", "unmount", "write">>
      n == Len(stages)
      head == IF n < 4 THEN n ELSE 4
  IN /\ SubSeq(stages, 1, head) = SubSeq(order, 1, head)
     /\ n > 4 => SubSeq(stages, 5, n) \in
                   {<<"verify">>, <<"sync">>, <<"verify", "sync">>}
     /\ failed # 0 =>
          /\ Len(stages) = failed
          /\ pc \in {"ret", "idle"} => ~result.success
          /\ pc = "ret" => status \in {ERROR, CANCELLED}
          /\ (pc = "ret" /\ cancels = 0) => status = ERROR

C9_Witness ==
  /\ pc = "ret"
  /\ failed = 2
  /\ stages = <<"validate", "guard">>
  /\ status = ERROR
  /\ ~result.success
  /\ cancels = 0

\* C10: whenever flash_iso returns, under any interleaving with cancel_flash,
\* the status is Completed, Error or Cancelled, and the result's success flag
\* is true exactly if the status is Completed.
C10_StatusAgreesWithResult ==
  pc = "ret" => /\ status \in Terminal
                /\ result.success <=> status = COMPLETED

\* C11: the size guard passes exactly when the image is not larger than the
\* reported device size: flash_iso goes past the check only with
\* isoSize <= devSize, and it rejects with "too small" only when
\* devSize < isoSize (so an image of exactly the device's size passes, and
\* one larger by one is rejected); a rejection comes before _safe_unmount,
\* with success = false and status Error (Cancelled only through a
\* cancel_flash call).
C11_SizeGuardBoundary ==
  /\ pc = "ro" => isoSize <= devSize
  /\ result.message = "Target device is too small" =>
       /\ devSize < isoSize
       /\ pc \in {"ret", "idle"}
       /\ stages = <<"validate", "guard">>
       /\ ~result.success
       /\ status \in {ERROR, CANCELLED}
       /\ cancels = 0 => status = ERROR

C11_Witness ==
  /\ pc = "ret"
  /\ result.message = "Target device is too small"
  /\ devSize > 0
  /\ isoSize = devSize + 1
  /\ status = ERROR

\* C12: a target whose path does not exist, that is not in /sys/block, that
\* is the system disk, that is smaller than the image or that is read-only
\* is never unmounted or written: the guard is the last stage of its
\* session, and flash_iso returns without success, the status Error (or
\* Cancelled after a cancel_flash call).  (Stated over the states in which
\* the probed facts of the target are at hand: from the guard to the entry
\* of the write engine.)
C12_RejectedTargetsNeverTouched ==
  (/\ Len(stages) \in {2, 3}
   /\ \/ ~dev.exists
      \/ ~dev.inSysBlock
      \/ dev.sameMajor
      \/ dev.ro
      \/ (pc \in {"ro", "set_unmounting"} /\ devSize < isoSize))
    => /\ stages = <<"validate", "guard">>
       /\ pc \in {"ret", "idle"} =>
            (~result.success /\ status \in {ERROR, CANCELLED})

\* C13: whatever the device's name, the guard does not approve a device that
\* _is_usb_device_linux does not confirm as removable and that is mounted.
C13_AmbiguousMountedRejected ==
  pc = "size" => ~(~dev.usb /\ dev.mounted)


\* C14: _safe_unmount returns true exactly when its re-scan finds no mounted
\* partition of the target (an exception before the re-scan gives false), and
\* when it returns false the session ends there: the write engine is never
\* invoked, flash_iso returns without success.
C14_UnmountResultIsRescan ==
  Len(stages) >= 3 =>
    /\ scan = "done" => (failed # 3 <=> mounts = 0)
    /\ scan = "raised" => failed = 3
    /\ failed = 3 =>
         /\ stages = <<"validate", "guard", "unmount">>
         /\ pc \in {"ret", "idle"}
         /\ ~result.success
         /\ devBytes = 0 /\ dd = "none"

\* The re-scan found a partition still mounted and flash_iso has ended.
C14_Witness ==
  /\ pc = "ret" /\ scan = "done" /\ mounts > 0 /\ failed = 3
  /\ result.message = "Failed to unmount device"


\* C15 (IsoSpec): on every failure path of validate_iso (a failed check, or
\* an exception while the file is examined: in stat(), in the read of the
\* header, in the reads of the checksum loop) the descriptor returned has a
\* non-empty error and valid == false.
C15_FailureMeansInvalid ==
  (fcall.fn = "validate_iso" /\ fcall.done) =>
    LET f == fcall.arg
        r == fcall.ret
    IN (\/ ~f.exists \/ ~f.regular \/ ~f.readable
        \/ f.length = <<0, 0>>
        \/ f.length[1] > MaxIsoGiB
        \/ (f.length[1] = MaxIsoGiB /\ f.length[2] > 0)
        \/ (f.length[1] = 0 /\ f.length[2] < HeaderLen)
        \/ f.readError # "none")
       => (r.error # "" /\ ~r.valid)

\* C16 (IsoSpec): when nothing raises while the file is examined, a readable
\* regular file is valid exactly when 32768 <= length <= 10 GiB, whatever its
\* header holds, and the error is the message of the first check violated, in
\* the order exists, regular, readable, non-empty, not oversized, header
\* length ("" when none is).
C16_SizeWindowAndCheckOrder ==
  (fcall.fn = "validate_iso" /\ fcall.done /\ fcall.arg.readError = "none") =>
    LET f == fcall.arg
        r == fcall.ret
        g == f.length[1]
        b == f.length[2]
    IN /\ (f.exists /\ f.regular /\ f.readable) =>
            (r.valid <=> /\ (g > 0 \/ b >= HeaderLen)
                         /\ (g < MaxIsoGiB \/ (g = MaxIsoGiB /\ b = 0)))
       /\ r.error =
            IF ~f.exists THEN "ISO file not found"
            ELSE IF ~f.regular THEN "Not a regular file"
            ELSE IF ~f.readable THEN "No read permission for ISO file"
            ELSE IF g = 0 /\ b = 0 THEN "ISO file is empty"
            ELSE IF g > MaxIsoGiB \/ (g = MaxIsoGiB /\ b > 0)
              THEN "ISO file is too large (>10GB)"
            ELSE IF g = 0 /\ b < HeaderLen THEN "ISO file is too small"
            ELSE ""
       /\ r.valid <=> r.error = ""

\* A file of exactly 32768 bytes with no signature in its header is valid.
C16_Witness ==
  /\ fcall.fn = "validate_iso" /\ fcall.done
  /\ fcall.arg.readError = "none"
  /\ fcall.arg.length = <<0, HeaderLen>>
  /\ fcall.arg.signature = "none"
  /\ fcall.ret.valid


\* C17 (VerifySpec): for an image of any length and a device at least as
\* large, on the direct path (device readable) and on the privileged path
\* (use_sudo, device not readable), with reads that succeed,
\* _verify_flash(I, D, checksum(I)) is true exactly when the first size(I)
\* bytes of D are I.
C17_VerifyRoundTrip ==
  (/\ fcall.fn = "_verify_flash" /\ fcall.done
   /\ fcall.arg.deviceSize >= fcall.arg.size
   /\ (fcall.arg.readable \/ fcall.arg.sudo)
   /\ ~fcall.arg.readFails
   /\ fcall.arg.expected = "image")
    => (fcall.ret <=> fcall.arg.agree = fcall.arg.size)


\* C18: a flash_iso call with verify == true in which every stage has run
\* and none has failed reaches Completed and returns success == true and
\* checksum_verified == true; every returned result with success == true and
\* verify == true has checksum_verified == true, and every returned result of
\* a call with verify == false has checksum_verified == false.
C18_VerifiedFlagMatchesVerify ==
  pc = "ret" =>
    /\ (/\ args.verify /\ failed = 0
        /\ "verify" \in {stages[i] : i \in 1..Len(stages)})
         => /\ COMPLETED \in {hist[i] : i \in 1..Len(hist)}
            /\ result.success
            /\ result.checksum_verified
    /\ (result.success /\ args.verify) => result.checksum_verified
    /\ ~args.verify => ~result.checksum_verified

\* A verified session has completed, no cancel_flash call made.
C18_Witness ==
  /\ pc = "ret" /\ args.verify /\ failed = 0 /\ cancels = 0
  /\ stages = <<"validate", "guard", "unmount", "write", "verify", "sync">>
  /\ status = COMPLETED /\ result.success /\ result.checksum_verified


\* C19 (MainSpec): at most one flash thread of main.py is inside flash_iso at
\* any time: a flash_iso call never starts while an earlier one on the same
\* flasher has not returned.
C19_OneSessionAtATime ==
  Cardinality({t \in 1..MaxClicks : main.threads[t] = "flash_iso"}) <= 1


\* C20: cancel_flash called while no flash_iso call is running leaves the
\* status as it was: as long as flash_iso has never been called on the
\* flasher, the status is the Idle of the constructor.
C20_CancelWithoutSessionKeepsStatus ==
  (pc = "idle" /\ stages = <<>>) => status = IDLE


\* C21 (ListSpec): every device in the list list_usb_devices returns is
\* classified removable/USB, is not the system disk (also when a probe of
\* that device fails), and has a size greater than 0.
C21_ListedDevicesAreSafe ==
  (fcall.fn = "list_usb_devices" /\ fcall.done) =>
    \A i \in 1..Len(fcall.ret) :
      /\ fcall.ret[i].usb
      /\ ~fcall.ret[i].sameMajor
      /\ fcall.ret[i].total_size > 0


\* C22: every result flash_iso returns with success == false carries a
\* non-empty message, on every failure and cancellation path.
C22_FailureHasMessage ==
  (pc = "ret" /\ ~result.success) => result.message # ""


\* C23, as stated (UnmountSpec): two calls of _safe_unmount in succession on
\* the same device both return true.
C23_Original ==
  (fcall.fn = "_safe_unmount" /\ fcall.done) =>
    (fcall.ret[1].ret /\ fcall.ret[2].ret)

\* C23 (UnmountSpec): when the mount table can be read, a call of
\* _safe_unmount on a device with no mounted partition returns true without
\* issuing any umount command; so a second call made after a first one that
\* returned true returns true as well, and issues none.
C23_UnmountIdempotent ==
  fcall.fn = "_safe_unmount" =>
    /\ \A i \in 1..Len(fcall.ret) :
         (fcall.ret[i].before = {} /\ fcall.ret[i].raised = "none") =>
           /\ fcall.ret[i].ret
           /\ fcall.ret[i].plain = {} /\ fcall.ret[i].forced = {}
    /\ (Len(fcall.ret) = 2 /\ fcall.ret[1].ret
        /\ fcall.ret[2].raised = "none") =>
         /\ fcall.ret[2].ret
         /\ fcall.ret[2].plain = {} /\ fcall.ret[2].forced = {}

\* A first call has unmounted a partition and returned true, the second call
\* has returned true.
C23_Witness ==
  /\ fcall.fn = "_safe_unmount" /\ fcall.done
  /\ fcall.ret[1].before # {} /\ fcall.ret[1].ret
  /\ fcall.ret[2].ret /\ fcall.ret[2].plain = {}

\* C24 (UnmountSpec): in every call, a forced umount is issued for exactly
\* the partitions whose plain umount failed (non-zero exit status or command
\* unavailable), and a plain umount for every mounted partition.
C24_ForcedUmountOnFailure ==
  fcall.fn = "_safe_unmount" =>
    \A i \in 1..Len(fcall.ret) :
      fcall.ret[i].raised = "none" =>
        /\ fcall.ret[i].plain = fcall.ret[i].before
        /\ fcall.ret[i].forced = fcall.ret[i].failed


\* C25: verification never passes in a session whose recorded checksum (the
\* one validate_iso gave) is empty: checksum_verified is only set when the
\* image digest, the device digest and the recorded checksum are equal.
C25_VerifiedNeedsRecordedChecksum ==
  result.checksum_verified => isoVal.checksum # ""


\* C26: when cancel_flash is signaled while the copy is running (the poll
\* loop of the privileged strategy, the block loop of the direct one),
\* _safe_dd_write returns the cancelled result (success == false, message
\* 'Write operation cancelled'), not a generic failure, and no dd subprocess
\* is left running.
C26_CancelledCopyResult ==
  ("copy" \in cancelAt /\ pc = "stop_monitor") =>
    /\ flashResult.success = FALSE
    /\ flashResult.message = "Write operation cancelled"
    /\ dd # "running"


\* C27: once flash_iso has reset it, the byte counter _bytes_written never
\* decreases until flash_iso returns, in both write strategies; it changes
\* only in that reset and in the loops of the write engine; and a step of the
\* progress monitor thread changes nothing but the monitor's own locals: not
\* the counter, the status, the event, the cancellation flag, the results.
C27_CounterMonotoneMonitorReadOnly ==
  [][/\ (pc \notin {"idle", "clear_stop", "clear_cancelled", "clear_bytes"})
          => bytes' >= bytes
     /\ (bytes' # bytes) => pc \in {"clear_bytes", "w_poll", "w_write"}
     /\ (pc' = pc /\ (monAlive' # monAlive \/ monLast' # monLast))
          => UNCHANGED <<bytes, status, stop, cancelled, isoSize, result,
                         flashResult, isoVal, hist, dd, devBytes>>]_vars

\* The direct copy has counted two blocks; the monitor has sampled the first.
C27_Witness ==
  pc = "w_loop" /\ bytes = 2 /\ monAlive /\ monLast = 1


\* C28: in every state in which the progress monitor thread is running, the
\* status of the session is Flashing.
C28_MonitorOnlyWhileFlashing ==
  monAlive => status = FLASHING


\* C29: an out-of-space error (errno 28) of the direct write is never
\* reported with the generic 'I/O error during write' message.
C29_OutOfSpaceIsDistinct ==
  flashResult.message #
    "I/O error during write: [Errno 28] No space left on device"


\* C30 (VerifySpec): on the direct path and on the privileged path alike, a
\* _verify_flash call that compares an image of 10 MiB or more with a device
\* holding it emits verification progress, every value in [95, 100].
C30_VerifyProgressOnBothPaths ==
  (/\ fcall.fn = "_verify_flash" /\ fcall.done
   /\ fcall.arg.deviceSize >= fcall.arg.size
   /\ (fcall.arg.readable \/ fcall.arg.sudo)
   /\ ~fcall.arg.readFails
   /\ fcall.arg.agree = fcall.arg.size
   /\ fcall.arg.size >= ReportStep)
    => /\ fcall.progress # <<>>
       /\ \A i \in 1..Len(fcall.progress) :
            95 <= fcall.progress[i] /\ fcall.progress[i] <= 100


\* C31: from the entry of flash_iso until it sets Validating the status is
\* Idle, in a first session and in a session that follows an earlier one on
\* the same instance (no cancel_flash call having been made).
C31_SessionBeginsIdle ==
  (PhaseOf(pc) = "entry" /\ cancels = 0) => status = IDLE


\* C32 (ListSpec): when list_usb_devices has returned, a device one of whose
\* probes failed (the system-disk probe or the size probe) is not in the
\* list, every other device that qualifies (not the system disk, USB, size
\* not 0) is in it, and the list is in the order of the device paths.
C32_ProbeFailureSkipsOnlyThatDevice ==
  (fcall.fn = "list_usb_devices" /\ fcall.done /\ fcall.arg.platform = "linux")
    => LET listed == {fcall.ret[i].device : i \in 1..Len(fcall.ret)}
       IN /\ \A p \in fcall.arg.probed :
               (p.probeFails \/ p.raises) => p.device \notin listed
          /\ \A p \in fcall.arg.probed :
               (~p.probeFails /\ ~p.raises /\ ~p.sameMajor /\ p.usb
                  /\ p.size # 0) => p.device \in listed
          /\ \A i, j \in 1..Len(fcall.ret) :
               i < j => fcall.ret[i].device < fcall.ret[j].device


\* C33: in a session in which cancel_flash was called during Validating or
\* Unmounting, no dd subprocess is started and no block is written to the
\* target device, in the privileged and in the direct write strategy.
C33_EarlyCancelWritesNothing ==
  (cancelAt \cap {VALIDATING, UNMOUNTING} # {}) => (dd = "none" /\ devBytes = 0)


\* C34: a session during which a cancel_flash call was made and ran to its
\* end (from the entry of flash_iso on, the reset of the stop event, the
\* cancelled flag and the byte counter included) does not end Completed with
\* success == true.
C34_CancelNeverLost ==
  (pc = "ret" /\ cancelAt # {} /\ cpc = "idle")
    => ~(status = COMPLETED /\ result.success)


\* C35: the values passed to the progress callback during one flash_iso
\* session never decrease (5, 10, the copy values, 95, the verification
\* values, 100), and 100 has been emitted only when the verification, if
\* requested, has succeeded.
C35_ProgressNeverDecreases ==
  /\ \A i, j \in 1..Len(emitted) : i < j => emitted[i] <= emitted[j]
  /\ (emitted # <<>> /\ emitted[Len(emitted)] = 100 /\ args.verify)
       => result.checksum_verified

\* A completed session of the direct strategy with copy and verification
\* values between the fixed ones.
C35_Witness ==
  /\ pc = "ret" /\ result.success /\ ~use_sudo /\ args.verify
  /\ emitted = <<5, 10, 50, 90, 95, 99, 100>>

=============================================================================
